---- MODULE Spec2Model ----
(***************************************************************************)
(* Mosaic.js: composition of a text artifact from Markdown fragments that  *)
(* reference one another with {{ selector }} tokens and carry {{ $name }}  *)
(* variable tokens.                                                        *)
(*                                                                         *)
(* Text is a sequence of items.  An item is a literal chunk                *)
(* [k |-> "lit", e |-> <<chunk>>] or a mustache token                      *)
(* [k |-> "tok", e |-> expression], where the expression (the trimmed text *)
(* between the braces) is a sequence of atoms: a word matching             *)
(* [A-Za-z0-9_-]+ or a single other character such as "@", "#", "/", "$".  *)
(* Whitespace inside the braces is not represented: every regular          *)
(* expression of the source that reads a token allows any amount of it and *)
(* trims it.                                                               *)
(***************************************************************************)
EXTENDS Integers, Sequences, FiniteSets, TLC

VARIABLES
    store,      \* the template directory: path -> file (or no file)
    variables,  \* Mosaic.variables: name -> value
    overrides,  \* Mosaic.overrides: canonical path -> (name -> value)
    pc,         \* "idle", or "loop" while compose runs expandAndFlattenRecursively
    node,       \* currentNode of expandAndFlattenRecursively
    iterations, \* iterations of the while loop made by the running compose
    warnings,   \* diagnostics recorded by the running (or last) compose
    rgOrder,    \* the order in which the next search of rg lists the files
    outcome,    \* the last call: operation, argument, result
    previous    \* history: the result of the call before, when it was a compose
                \* of the same selector with nothing provided in between

vars == <<store, variables, overrides, pc, node, iterations, warnings, rgOrder, outcome,
          previous>>

-----------------------------------------------------------------------------
(* Bounds of the model *)

\* Iterations of the expand-then-flatten loop that the model follows.
MaxIterations == 3

-----------------------------------------------------------------------------
(* Text *)

Lit(s) == [k |-> "lit", e |-> <<s>>]
Tok(e) == [k |-> "tok", e |-> e]
Var(n) == Tok(<<"$", n>>)

\* Words: the strings of the model that match [A-Za-z0-9_-]+
Words == {"root", "other", "leaf", "zz", "ir", "io", "name", "x", "d", "main"}

\* null / undefined of the source.  No valid selector and no path is empty.
Null == <<>>

EmptyMap == <<>>

\* An assignment in the place of the spread: the earlier entries are lost
MergeDropping(f, g) == g

Merge(f, g) ==
    [key \in (DOMAIN f) \cup (DOMAIN g) |-> IF key \in DOMAIN g THEN g[key] ELSE f[key]]

InSeq(x, s) == \E i \in 1..Len(s) : s[i] = x

AppendNew(s, x) == IF InSeq(x, s) THEN s ELSE Append(s, x)

\* [...new Set(s)]: the first occurrence of every element, in order
RECURSIVE Dedup(_)

\* The list as it is, duplicates kept
DedupSkipped(s) == s

Dedup(s) ==
    IF s = <<>> THEN <<>>
    ELSE AppendNew(Dedup(SubSeq(s, 1, Len(s) - 1)), s[Len(s)])

-----------------------------------------------------------------------------
(* The fragments of the template directory *)

rootPath  == <<"root">>
otherPath == <<"other">>
leafPath  == <<"leaf">>

\* Two fragments of the directory d
dirMainPath  == <<"d", "/", "main">>
dirOtherPath == <<"d", "/", "other">>

Paths == {rootPath, otherPath, leafPath, dirMainPath, dirOtherPath}

NoFile == [exists |-> FALSE, id |-> "", body |-> <<>>]
File(id, body) == [exists |-> TRUE, id |-> id, body |-> body]

\* Reference expressions that occur in the bodies of the model
SelfRefs    == {<<"root">>, <<"@", "root">>, <<"#", "ir">>}
MissingRefs == {<<"zz">>, <<"@", "zz">>, <<"#", "zz">>}

RootFiles ==
    {File("ir", <<Lit("Hi "), Var("name"), Lit("\n"), Tok(<<"other">>)>>),
     File("ir", <<Lit("r"), Var("x")>>)}
    \cup {File("ir", <<Lit("r"), Tok(e)>>) : e \in SelfRefs \cup MissingRefs}

OtherFiles ==
    {NoFile,
     File("", <<Lit("nested")>>),
     File("", <<Var("x")>>),
     File("", <<Lit("o"), Tok(<<"root">>)>>),
     File("", <<Lit("o"), Tok(<<"#", "ir">>)>>),
     File("", <<Lit("o"), Tok(<<"leaf">>)>>)}

LeafFiles ==
    {NoFile,
     File("", <<Lit("c")>>),
     File("", <<Var("x")>>)}

StoreOf(r, o, l) ==
    [p \in Paths |-> IF p = rootPath THEN r
                     ELSE IF p = otherPath THEN o
                     ELSE IF p = leafPath THEN l
                     ELSE NoFile]

\* Directories in which root and other carry the same id
DuplicateIdStores ==
    {StoreOf(File("ir", <<Lit("r"), Tok(<<"#", "ir">>)>>),
             File("ir", <<Lit("nested")>>),
             NoFile)}

\* Directories with the subdirectory d: d/main refers to `other`, and there
\* is a d/other
DirectoryStores ==
    {[p \in Paths |-> IF p = rootPath THEN File("ir", <<Lit("r"), Var("x")>>)
                      ELSE IF p = otherPath THEN o
                      ELSE IF p = dirMainPath THEN File("", <<Lit("m"), Tok(<<"other">>)>>)
                      ELSE IF p = dirOtherPath THEN File("", <<Lit("deep")>>)
                      ELSE NoFile] :
        o \in {NoFile, File("", <<Lit("nested")>>)}}

\* A directory in which root and the two fragments it refers to hold a
\* token of the same variable
SharedVariableStores ==
    {StoreOf(File("ir", <<Var("x"), Lit("+"), Tok(<<"other">>), Tok(<<"leaf">>)>>),
             File("", <<Var("x")>>),
             File("", <<Var("x")>>))}

\* A diamond: root refers to other and to leaf, and other refers to leaf
DiamondStores ==
    {StoreOf(File("ir", <<Tok(<<"other">>), Tok(<<"leaf">>)>>),
             File("", <<Lit("o"), Tok(<<"leaf">>)>>),
             File("", <<Lit("c")>>))}

\* A body that holds the token of one variable twice
RepeatedVariableStores ==
    {StoreOf(File("ir", <<Var("x"), Var("name"), Var("x")>>), NoFile, NoFile)}

\* root refers to other three times: by its path, from the root of the
\* directory, and by its id
MultiReferenceStores ==
    {StoreOf(File("ir", <<Tok(<<"other">>), Lit("-"), Tok(<<"@", "other">>),
                          Tok(<<"#", "io">>)>>),
             File("io", <<Lit("nested")>>),
             NoFile)}

\* The body of root holds a token whose expression is no selector of the
\* three forms
InvalidReferenceStores ==
    {StoreOf(File("ir", <<Lit("r"), Tok(<<".", "/", "other">>)>>),
             File("", <<Lit("nested")>>),
             NoFile)}

\* The body of the fragment root refers to holds the characters & and <
SpecialCharacterStores ==
    {StoreOf(File("ir", <<Lit("r"), Tok(<<"other">>)>>),
             File("", <<Lit("a"), Lit("&"), Lit("<"), Lit("b")>>),
             NoFile)}

Stores ==
    {StoreOf(r, o, l) : r \in RootFiles, o \in OtherFiles, l \in LeafFiles}
    \cup DuplicateIdStores
    \cup SharedVariableStores
    \cup DirectoryStores
    \cup DiamondStores
    \cup RepeatedVariableStores
    \cup MultiReferenceStores
    \cup InvalidReferenceStores
    \cup SpecialCharacterStores

-----------------------------------------------------------------------------
(* Selectors: utils/normalizeToRelativeSelector.ts, findMarkdownFileById *)

\* [A-Za-z0-9_-]+(\/[A-Za-z0-9_-]+)*
IsSegments(s) ==
    /\ Len(s) >= 1
    /\ Len(s) % 2 = 1
    /\ \A i \in 1..Len(s) : IF i % 2 = 1 THEN s[i] \in Words ELSE s[i] = "/"

\* isValidTemplateSelector accepting every selector
isValidTemplateSelectorAny(selector) == [valid |-> TRUE, type |-> "relative"]

isValidTemplateSelector(selector) ==
    IF IsSegments(selector)
    THEN [valid |-> TRUE, type |-> "relative"]
    ELSE IF Len(selector) >= 2 /\ selector[1] = "@" /\ IsSegments(Tail(selector))
    THEN [valid |-> TRUE, type |-> "root"]
    ELSE IF Len(selector) = 2 /\ selector[1] = "#" /\ selector[2] \in Words
    THEN [valid |-> TRUE, type |-> "id"]
    ELSE [valid |-> FALSE, type |-> "none"]

\* rg searches the files of the directory with several threads and lists
\* the matching files in the order in which the threads finish: the order is
\* not fixed by the directory.  Two orders, in which every two files come in
\* either order.
Orders ==
    {<<leafPath, otherPath, rootPath, dirMainPath, dirOtherPath>>,
     <<dirOtherPath, dirMainPath, rootPath, otherPath, leafPath>>}

HasDuplicateId ==
    \E p, q \in Paths :
        p # q /\ store[p].exists /\ store[q].exists /\ store[p].id = store[q].id
              /\ store[p].id # ""

\* The orders a search can have.  Where no two files carry the same id a
\* search lists one file at most, its order shows nowhere, and one order is
\* followed.
Enumerations ==
    IF HasDuplicateId
    THEN Orders
    ELSE {<<leafPath, otherPath, rootPath, dirMainPath, dirOtherPath>>}

FirstMatch(matches) ==
    [path |-> IF matches = <<>> THEN Null ELSE matches[1],
     warn |-> IF Len(matches) > 1 THEN {"duplicate-id"} ELSE {}]

\* The first file whose frontmatter id is the given id, and whether there are several
findMarkdownFileById(id) ==
    FirstMatch(SelectSeq(rgOrder, LAMBDA p : store[p].exists /\ store[p].id = id))

\* normalizeSelector returning every selector as it is
normalizeSelectorAsIs(selector, type) == [path |-> selector, warn |-> {}]

normalizeSelector(selector, type) ==
    IF type = "id" THEN findMarkdownFileById(selector[2])
    ELSE IF type = "root" THEN [path |-> Tail(selector), warn |-> {}]
    ELSE [path |-> selector, warn |-> {}]

NormalizeValidated(selector, validation) ==
    IF validation.valid
    THEN normalizeSelector(selector, validation.type)
    ELSE [path |-> Null, warn |-> {}]

normalizeToRelativeSelector(selector) ==
    NormalizeValidated(selector, isValidTemplateSelector(selector))

-----------------------------------------------------------------------------
(* Fragment parser: parseMarkdownTemplate *)

\* /^\$[a-zA-Z0-9_\-]+$/
IsVariableRef(e) == Len(e) = 2 /\ e[1] = "$" /\ e[2] \in Words

VariableNames(toks) == [i \in 1..Len(toks) |-> toks[i].e[2]]

\* Names of the {{ $name }} tokens, one entry per occurrence
extractVariables(content) ==
    VariableNames(SelectSeq(content, LAMBDA it : it.k = "tok" /\ IsVariableRef(it.e)))

\* normalized ?? ref
OrElse(normalized, ref) == IF normalized = Null THEN ref ELSE normalized

\* The body of the while loop of extractReferencesFromContent for the match
\* at position i whose expression ref is no variable.  acc collects
\* normalizedReferences (refs), referencesToRemove (remove), the replacements
\* (repl: position -> normalized key) and the diagnostics.
ScanMatch(acc, i, ref, normalizedRef, warn, currentPath, ancestors, removeLoopedReferences) ==
    IF removeLoopedReferences /\ currentPath # Null /\ normalizedRef = currentPath
    THEN [acc EXCEPT !.remove = Append(@, ref),
                     !.warn = @ \cup warn \cup {"self-reference"}]
    ELSE IF removeLoopedReferences /\ currentPath # Null /\ InSeq(normalizedRef, ancestors)
    THEN [acc EXCEPT !.remove = Append(@, ref),
                     !.warn = @ \cup warn \cup {"loop"}]
    ELSE [acc EXCEPT !.refs = Append(@, normalizedRef),
                     !.repl = Merge(@, i :> normalizedRef),
                     !.warn = @ \cup warn]

ScanNormalized(acc, i, ref, normalized, currentPath, ancestors, removeLoopedReferences) ==
    ScanMatch(acc, i, ref, OrElse(normalized.path, ref), normalized.warn,
              currentPath, ancestors, removeLoopedReferences)

\* The while loop over the matches of referenceRegex, from position i on
RECURSIVE ScanReferences(_, _, _, _, _, _)
ScanReferences(content, i, currentPath, ancestors, removeLoopedReferences, acc) ==
    IF i > Len(content) THEN acc
    ELSE ScanReferences(content, i + 1, currentPath, ancestors, removeLoopedReferences,
            IF content[i].k # "tok" \/ IsVariableRef(content[i].e)
            THEN acc
            ELSE ScanNormalized(acc, i, content[i].e,
                                normalizeToRelativeSelector(content[i].e),
                                currentPath, ancestors, removeLoopedReferences))

\* content.replace(/{{\s*ref\s*}}/g, '') for every ref of the list
RemoveTokens(content, refs) ==
    SelectSeq(content, LAMBDA it : ~(it.k = "tok" /\ InSeq(it.e, refs)))

\* The replacements spliced into the content
NormalizeTokens(content, repl) ==
    [i \in 1..Len(content) |-> IF i \in DOMAIN repl THEN Tok(repl[i]) ELSE content[i]]

ExtractResult(content, acc, removeLoopedReferences, normalizeInContent) ==
    [references |-> Dedup(acc.refs),
     content |-> IF removeLoopedReferences /\ acc.remove # <<>>
                 THEN RemoveTokens(content, acc.remove)
                 ELSE IF normalizeInContent /\ acc.refs # <<>>
                 THEN NormalizeTokens(content, acc.repl)
                 ELSE content,
     warn |-> acc.warn]

\* No caller sets removeLoopedReferences and normalizeInContent together
extractReferencesFromContent(content, currentPath, ancestors, removeLoopedReferences, normalizeInContent) ==
    ExtractResult(content,
                  ScanReferences(content, 1, currentPath, ancestors, removeLoopedReferences,
                                 [refs |-> <<>>, remove |-> <<>>, repl |-> EmptyMap, warn |-> {}]),
                  removeLoopedReferences, normalizeInContent)

\* path.join(instructionsDir, selectorPath + ".md"), relative to the
\* directory: of the segments of the selector, the empty ones and the ones
\* that are `.` are dropped.  atStart: the selector is at the start of a
\* segment.
RECURSIVE PathJoin(_, _)
PathJoin(selectorPath, atStart) ==
    IF selectorPath = <<>> THEN <<>>
    ELSE IF atStart /\ selectorPath[1] = "/"
    THEN PathJoin(Tail(selectorPath), TRUE)
    ELSE IF atStart /\ Len(selectorPath) >= 2 /\ selectorPath[1] = "." /\ selectorPath[2] = "/"
    THEN PathJoin(Tail(Tail(selectorPath)), TRUE)
    ELSE <<selectorPath[1]>> \o PathJoin(Tail(selectorPath), selectorPath[1] = "/")

\* fs.existsSync and fs.readFileSync of the joined path
ReadFile(templatePath) ==
    IF templatePath \in Paths /\ store[templatePath].exists
    THEN [found |-> TRUE, file |-> store[templatePath], warn |-> {}]
    ELSE [found |-> FALSE, file |-> NoFile, warn |-> {"not-found"}]

\* getTemplateContent({templateSelector, type: "relative"}): the file
\* <templateDir>/<templateSelector>.md, or null with a warning
getTemplateContent(templateSelector) == ReadFile(PathJoin(templateSelector, TRUE))

ParsedTemplate(templateSelector, file, ex) ==
    [node |-> [path |-> templateSelector,
               frontmatter |-> file.id,
               content |-> ex.content,
               variables |-> extractVariables(file.body),
               references |-> ex.references,
               ancestors |-> <<>>],
     warn |-> ex.warn]

ParseContent(templateSelector, got) ==
    IF got.found
    THEN ParsedTemplate(templateSelector, got.file,
                        extractReferencesFromContent(got.file.body, Null, <<>>, FALSE, TRUE))
    ELSE [node |-> [path |-> templateSelector,
                    frontmatter |-> "",
                    content |-> <<>>,
                    variables |-> <<>>,
                    references |-> <<>>,
                    ancestors |-> <<>>],
          warn |-> got.warn]

parseMarkdown(templateSelector) ==
    ParseContent(templateSelector, getTemplateContent(templateSelector))

-----------------------------------------------------------------------------
(* Mustache.render, as buildTemplateTree.ts calls it (default escaping) *)

\* mustache.js escapeHtml: & < > " ' / ` = are replaced by entities.
\* The atoms "dquote" and "backtick" stand for the characters " and `.
EscapeAtom(a) ==
    CASE a = "&"  -> "&amp;"
      [] a = "<"  -> "&lt;"
      [] a = ">"  -> "&gt;"
      [] a = "dquote" -> "&quot;"
      [] a = "'"  -> "&#39;"
      [] a = "/"  -> "&#x2F;"
      [] a = "backtick" -> "&#x60;"
      [] a = "="  -> "&#x3D;"
      [] OTHER    -> a

escapeHtml(text) ==
    [i \in 1..Len(text) |->
        [k |-> text[i].k, e |-> [j \in 1..Len(text[i].e) |-> EscapeAtom(text[i].e[j])]]]

\* Context.lookup: the value of a name in the view; undefined renders as the empty string
Lookup(name, view) == IF name \in DOMAIN view THEN view[name] ELSE <<>>

\* The tag type mustache.js reads right after the opening braces
TagType(it) ==
    IF it.k # "tok" THEN "text"
    ELSE IF it.e = <<>> THEN "name"
    ELSE IF it.e[1] \in {"#", "^"} THEN "open"
    ELSE IF it.e[1] = "/" THEN "close"
    ELSE IF it.e[1] \in {"!", ">"} THEN "silent"
    ELSE IF it.e[1] = "&" THEN "unescaped"
    ELSE "name"

\* parseTemplate: 'Unopened section' / 'Unclosed section' are thrown unless
\* every section tag {{#n}} or {{^n}} is closed by its {{/n}}
RECURSIVE SectionsClosed(_, _, _)
SectionsClosed(content, i, open) ==
    IF i > Len(content) THEN open = <<>>
    ELSE IF TagType(content[i]) = "close" /\ (open = <<>> \/ Head(open) # Tail(content[i].e))
    THEN FALSE
    ELSE SectionsClosed(content, i + 1,
            IF TagType(content[i]) = "open" THEN <<Tail(content[i].e)>> \o open
            ELSE IF TagType(content[i]) = "close" THEN Tail(open)
            ELSE open)

\* What one token renders to, outside of a section that is not rendered
RenderToken(it, type, view) ==
    CASE type \in {"open", "close", "silent"} -> <<>>
      [] type = "text" -> <<it>>
      [] type = "unescaped" -> Lookup(Tail(it.e), view)
      [] OTHER -> escapeHtml(Lookup(it.e, view))

\* The number of enclosing sections that are not rendered, after a token: a
\* section renders when its value is a non-empty string, an inverted section
\* when it is not
SkipAfter(it, type, view, skipping) ==
    CASE type = "open" /\ skipping > 0 -> skipping + 1
      [] type = "open" ->
           IF (Lookup(Tail(it.e), view) # <<>>) = (it.e[1] = "#") THEN 0 ELSE 1
      [] type = "close" /\ skipping > 0 -> skipping - 1
      [] OTHER -> skipping

\* renderTokens from item i on
RECURSIVE RenderTokens(_, _, _, _)
RenderTokens(content, i, view, skipping) ==
    IF i > Len(content) THEN <<>>
    ELSE (IF skipping > 0 THEN <<>> ELSE RenderToken(content[i], TagType(content[i]), view))
         \o RenderTokens(content, i + 1, view,
                         SkipAfter(content[i], TagType(content[i]), view, skipping))

\* Mustache.render(template, view): the rendered text, or a thrown Error
MustacheRender(template, view) ==
    IF SectionsClosed(template, 1, <<>>)
    THEN [ok |-> TRUE, out |-> RenderTokens(template, 1, view, 0)]
    ELSE [ok |-> FALSE, out |-> <<>>]

-----------------------------------------------------------------------------
(* Variable resolver *)

\* Object.entries of a stored map.  The keys of the stored override map are
\* canonical paths, which normalize to themselves, so the order of the
\* entries has no effect.
EntryThen(f, key, rest) == <<[sel |-> key, vars |-> f[key]]>> \o rest

Without(f, key) == [c \in (DOMAIN f) \ {key} |-> f[c]]

RECURSIVE Entries(_)
Entries(f) ==
    IF DOMAIN f = {} THEN <<>>
    ELSE EntryThen(f, CHOOSE c \in DOMAIN f : TRUE,
                   Entries(Without(f, CHOOSE c \in DOMAIN f : TRUE)))

PutNormalized(init, normalizedKey, value) ==
    IF normalizedKey = Null THEN init ELSE Merge(init, normalizedKey :> value)

\* Selector keys to canonical paths; entries whose selector does not
\* normalize are dropped, a later entry replaces an earlier one of the same path
RECURSIVE normalizeOverridesPaths(_)
normalizeOverridesPaths(entries) ==
    IF entries = <<>> THEN EmptyMap
    ELSE PutNormalized(normalizeOverridesPaths(SubSeq(entries, 1, Len(entries) - 1)),
                       normalizeToRelativeSelector(entries[Len(entries)].sel).path,
                       entries[Len(entries)].vars)

\* The $-prefixed view of the merged variables
Prefixed(mergedVariables) ==
    [e \in {<<"$", n>> : n \in DOMAIN mergedVariables} |-> mergedVariables[e[2]]]

\* normalizedOverrides[currentPath] || {}
PathOverrides(normalizedOverrides, currentPath) ==
    IF currentPath \in DOMAIN normalizedOverrides
    THEN normalizedOverrides[currentPath]
    ELSE EmptyMap

extractTemplateVariables(currentPath) ==
    Prefixed(Merge(variables,
                   PathOverrides(normalizeOverridesPaths(Entries(overrides)), currentPath)))

-----------------------------------------------------------------------------
(* Tree builder: utils/buildTemplateTree.ts *)

\* removeReferenceFromNode without the replace of the tokens in the content
removeReferenceKeepingTokens(templateNode, referencesToRemove) ==
    [templateNode EXCEPT
        !.references = SelectSeq(@, LAMBDA ref : ~InSeq(ref, referencesToRemove))]

removeReferenceFromNode(templateNode, referencesToRemove) ==
    [templateNode EXCEPT
        !.references = SelectSeq(@, LAMBDA ref : ~InSeq(ref, referencesToRemove)),
        !.content = RemoveTokens(@, referencesToRemove)]

\* filterLoopedReferences without its first step
FilterSelfSkipped(templateNode) == [node |-> templateNode, warn |-> {}]

\* The first step of filterLoopedReferences: the self-reference
FilterSelf(templateNode) ==
    IF InSeq(templateNode.path, templateNode.references)
    THEN [node |-> removeReferenceFromNode(templateNode, <<templateNode.path>>),
          warn |-> {"self-reference"}]
    ELSE [node |-> templateNode, warn |-> {}]

\* filterLoopedReferences without its second step
FilterAncestorsSkipped(filtered, loopedReferences) == filtered

\* The second step: the references that are ancestors
FilterAncestors(filtered, loopedReferences) ==
    IF loopedReferences # <<>>
    THEN [node |-> removeReferenceFromNode(filtered.node, loopedReferences),
          warn |-> filtered.warn \cup {"loop"}]
    ELSE filtered

LoopedReferences(filteredNode) ==
    SelectSeq(filteredNode.references, LAMBDA ref : InSeq(ref, filteredNode.ancestors))

FilterLooped(filtered) == FilterAncestors(filtered, LoopedReferences(filtered.node))

\* filterLoopedReferences returning the node as it is given
filterLoopedReferencesSkipped(templateNode) == [node |-> templateNode, warn |-> {}]

filterLoopedReferences(templateNode) == FilterLooped(FilterSelf(templateNode))

AddWarn(result, warn) == [result EXCEPT !.warn = @ \cup warn]

FilterParsed(parsed, ancestors) ==
    AddWarn(filterLoopedReferences([parsed.node EXCEPT !.ancestors = ancestors]), parsed.warn)

getNodeFromSelector(rootSelector, ancestors) ==
    FilterParsed(parseMarkdown(rootSelector), ancestors)

ExpandedChild(child, expanded) ==
    [node |-> [child.node EXCEPT !.content = expanded.out],
     ok |-> expanded.ok,
     warn |-> child.warn]

\* The child's content rendered with the variables of its own path
ExpandChild(child) ==
    ExpandedChild(child, MustacheRender(child.node.content,
                                        extractTemplateVariables(child.node.path)))

\* One child of attachChildren
AttachChild(rootNode, ref) ==
    ExpandChild(getNodeFromSelector(ref, Append(rootNode.ancestors, rootNode.path)))

Attached(children) ==
    [children |-> [i \in 1..Len(children) |-> children[i].node],
     ok |-> \A i \in 1..Len(children) : children[i].ok,
     warn |-> UNION {children[i].warn : i \in 1..Len(children)}]

attachChildren(rootNode) ==
    Attached([i \in 1..Len(rootNode.references) |->
                 AttachChild(rootNode, rootNode.references[i])])

\* { "path": "content" } of the children; a later child replaces an earlier
\* one of the same path
MustacheContext(children) ==
    [path \in {children[i].path : i \in 1..Len(children)} |->
        children[CHOOSE i \in 1..Len(children) :
                    /\ children[i].path = path
                    /\ \A j \in (i + 1)..Len(children) : children[j].path # path].content]

Flattened(rootNode, ok, extracted) ==
    [node |-> [rootNode EXCEPT !.content = extracted.content,
                               !.references = extracted.references],
     ok |-> ok,
     warn |-> extracted.warn]

FlattenExpanded(rootNode, expanded) ==
    Flattened(rootNode, expanded.ok,
              extractReferencesFromContent(expanded.out, rootNode.path,
                                           rootNode.ancestors, TRUE, FALSE))

flattenChildrenAndExpandContent(rootNode, children) ==
    IF children = <<>> THEN [node |-> rootNode, ok |-> TRUE, warn |-> {}]
    ELSE FlattenExpanded(rootNode, MustacheRender(rootNode.content, MustacheContext(children)))

\* One iteration of the while loop of expandAndFlattenRecursively
FlattenAttached(rootNode, attached) ==
    IF attached.ok
    THEN AddWarn(flattenChildrenAndExpandContent(rootNode, attached.children), attached.warn)
    ELSE [node |-> rootNode, ok |-> FALSE, warn |-> attached.warn]

ExpandAndFlatten(rootNode) == FlattenAttached(rootNode, attachChildren(rootNode))

-----------------------------------------------------------------------------
(* The session: Mosaic *)

EmptyNode ==
    [path |-> <<>>, frontmatter |-> "", content |-> <<>>, variables |-> <<>>,
     references |-> <<>>, ancestors |-> <<>>]

Outcome(op, arg, status, value) ==
    [op |-> op, arg |-> arg, status |-> status, value |-> value]

NoPrevious == [set |-> FALSE, status |-> "", value |-> <<>>, warnings |-> {}]

\* What the compose call that has just ended gave, when its selector is the
\* one of the call that starts
Previous(templateSelector) ==
    IF outcome.op = "compose" /\ outcome.arg = templateSelector
    THEN [set |-> TRUE, status |-> outcome.status, value |-> outcome.value,
          warnings |-> warnings]
    ELSE NoPrevious

\* Arguments of the calls
InvalidSelectors == {<<"/", "root">>, <<"#", "ir", "/", "root">>}

RootSelectors ==
    {<<"root">>, <<"other">>, <<"@", "root">>, <<"#", "ir">>, <<"d", "/", "main">>}
    \cup InvalidSelectors

\* A value that is neither a string nor a number: the boolean true
NotText == <<[k |-> "boolean", e |-> <<"true">>]>>

MalformedVariablePayloads == {"x" :> NotText}

WellFormedVariablePayloads ==
    {"name" :> <<Lit("World")>>,
     "x" :> <<Lit("1")>>,
     "x" :> <<Tok(<<"leaf">>)>>}

VariablePayloads == WellFormedVariablePayloads \cup MalformedVariablePayloads

MalformedOverridePayloads == {<<[sel |-> <<"root">>, vars |-> ("x" :> NotText)]>>}

\* For root, another set of variables: x, and name with the text of a
\* token in it
RootNameOverride == ("x" :> <<Lit("2")>>) @@ ("name" :> <<Tok(<<"other">>)>>)

WellFormedOverridePayloads ==
    {<<[sel |-> s, vars |-> ("x" :> <<Lit("2")>>)]>> :
        s \in {<<"root">>, <<"@", "other">>, <<"#", "ir">>, <<"#", "zz">>}}
    \cup {<<[sel |-> <<"root">>, vars |-> RootNameOverride]>>}

OverridePayloads == WellFormedOverridePayloads \cup MalformedOverridePayloads

Init ==
    /\ store \in Stores
    /\ variables = EmptyMap
    /\ overrides = EmptyMap
    /\ pc = "idle"
    /\ node = EmptyNode
    /\ iterations = 0
    /\ warnings = {}
    /\ rgOrder \in Enumerations
    /\ outcome = Outcome("fromDirectory", <<>>, "returned", <<>>)
    /\ previous = NoPrevious

\* Schema.Union(Schema.String, Schema.Number).  A string is a text; a number
\* is the one item [k |-> "number", e |-> <<digits>>]; a value of another
\* type (a boolean, null, an object) is one item of that kind.
IsStringOrNumber(value) ==
    \/ \A i \in 1..Len(value) : value[i].k \in {"lit", "tok"}
    \/ Len(value) = 1 /\ value[1].k = "number"

\* TemplateVariablesSchema: a record of strings and numbers
IsTemplateVariables(record) == \A key \in DOMAIN record : IsStringOrNumber(record[key])

\* decodeVariables accepting every payload
decodeVariablesUnchecked(payload) == [ok |-> TRUE, value |-> payload]

\* The decoded payload, or the VariablesDecodeError that runSync throws
decodeVariables(payload) ==
    IF IsTemplateVariables(payload)
    THEN [ok |-> TRUE, value |-> payload]
    ELSE [ok |-> FALSE, value |-> EmptyMap]

\* decodeTemplateOverrides giving, for every path it names, the variables
\* the session holds for the path with the ones of the payload over them
MergedPerPath(normalized) ==
    [path \in DOMAIN normalized |-> Merge(PathOverrides(overrides, path), normalized[path])]

decodeTemplateOverridesMerging(payload) ==
    [ok |-> \A i \in 1..Len(payload) : IsTemplateVariables(payload[i].vars),
     value |-> MergedPerPath(normalizeOverridesPaths(payload))]

\* TemplateOverridesSchema, then the keys normalized
decodeTemplateOverrides(payload) ==
    IF \A i \in 1..Len(payload) : IsTemplateVariables(payload[i].vars)
    THEN [ok |-> TRUE, value |-> normalizeOverridesPaths(payload)]
    ELSE [ok |-> FALSE, value |-> EmptyMap]

\* The end of a provide call: the assignment of the merged map, or the
\* error thrown by runSync before the assignment
Provided(op, payload, decoded) ==
    outcome' = Outcome(op, payload, IF decoded.ok THEN "returned" ELSE "raised", <<>>)

provideVariables(payload) ==
    /\ pc = "idle"
    /\ variables' = IF decodeVariables(payload).ok
                    THEN Merge(variables, decodeVariables(payload).value)
                    ELSE variables
    /\ Provided("provideVariables", payload, decodeVariables(payload))
    /\ rgOrder' \in Enumerations
    /\ node' = EmptyNode
    /\ iterations' = 0
    /\ warnings' = {}
    /\ previous' = NoPrevious
    /\ UNCHANGED <<store, overrides, pc>>

provideOverrides(payload) ==
    /\ pc = "idle"
    /\ overrides' = IF decodeTemplateOverrides(payload).ok
                    THEN Merge(overrides, decodeTemplateOverrides(payload).value)
                    ELSE overrides
    /\ Provided("provideOverrides", payload, decodeTemplateOverrides(payload))
    /\ rgOrder' \in Enumerations
    /\ node' = EmptyNode
    /\ iterations' = 0
    /\ warnings' = {}
    /\ previous' = NoPrevious
    /\ UNCHANGED <<store, variables, pc>>

\* A compose that writes the overrides of root into the session's variables
SessionWritten ==
    /\ variables' = Merge(variables, PathOverrides(overrides, rootPath))
    /\ overrides' = overrides

\* compose hands this.variables and this.overrides to the pipeline, which
\* reads them and builds new objects from them; it assigns neither
SessionKept == UNCHANGED <<variables, overrides>>

EnterLoop(templateSelector, first) ==
    /\ node' = first.node
    /\ warnings' = first.warn
    /\ pc' = "loop"
    /\ outcome' = Outcome("compose", templateSelector, "running", <<>>)

\* compose up to the while loop: the selector is validated and
\* getNodeFromSelector builds the initial node
composeStart(templateSelector) ==
    /\ pc = "idle"
    /\ iterations' = 0
    /\ rgOrder' \in Enumerations
    /\ previous' = Previous(templateSelector)
    /\ IF isValidTemplateSelector(templateSelector).valid
       THEN EnterLoop(templateSelector, getNodeFromSelector(templateSelector, <<>>))
       ELSE /\ node' = EmptyNode
            /\ warnings' = {"invalid-selector"}
            /\ pc' = "idle"
            /\ outcome' = Outcome("compose", templateSelector, "raised", <<>>)
    /\ SessionKept
    /\ UNCHANGED store

Iterated(flattened) ==
    IF flattened.ok
    THEN /\ node' = flattened.node
         /\ iterations' = iterations + 1
         /\ warnings' = warnings \cup flattened.warn
         /\ UNCHANGED <<pc, outcome>>
    ELSE /\ pc' = "idle"
         /\ outcome' = [outcome EXCEPT !.status = "raised"]
         /\ warnings' = warnings \cup flattened.warn
         /\ UNCHANGED <<node, iterations>>

\* One iteration of the while loop of expandAndFlattenRecursively; an Error
\* thrown by Mustache.render ends compose
composeIterate ==
    /\ pc = "loop"
    /\ node.references # <<>>
    /\ iterations < MaxIterations
    /\ rgOrder' \in Enumerations
    /\ Iterated(ExpandAndFlatten(node))
    /\ SessionKept
    /\ UNCHANGED <<store, previous>>

\* The loop ends: compose returns finalNode.content
composeReturn ==
    /\ pc = "loop"
    /\ node.references = <<>>
    /\ pc' = "idle"
    /\ rgOrder' \in Enumerations
    /\ outcome' = [outcome EXCEPT !.status = "returned", !.value = node.content]
    /\ SessionKept
    /\ UNCHANGED <<store, node, iterations, warnings, previous>>

Next ==
    \/ \E payload \in VariablePayloads : provideVariables(payload)
    \/ \E payload \in OverridePayloads : provideOverrides(payload)
    \/ \E templateSelector \in RootSelectors : composeStart(templateSelector)
    \/ composeIterate
    \/ composeReturn

Spec == Init /\ [][Next]_vars

-----------------------------------------------------------------------------
(* Properties *)

\* The characters of a text: the chunks of its literals, and the braces and
\* the expression of every token left in it
RECURSIVE PlainText(_)
PlainText(content) ==
    IF content = <<>> THEN <<>>
    ELSE (IF Head(content).k = "lit"
          THEN Head(content).e
          ELSE <<"{{">> \o Head(content).e \o <<"}}">>)
         \o PlainText(Tail(content))

\* The last call was compose(templateSelector) and it has ended
Composed(templateSelector) ==
    pc = "idle" /\ outcome.op = "compose" /\ outcome.arg = templateSelector

Returns(text) == outcome.status = "returned" /\ PlainText(outcome.value) = text

Bound(name, value) == name \in DOMAIN variables /\ variables[name] = value

EndToEndBody == <<Lit("Hi "), Var("name"), Lit("\n"), Tok(<<"other">>)>>

\* C1: with the root body `Hi {{ $name }}` + newline + `{{ other }}`, the
\* global variable name=World and the fragment other with the body `nested`,
\* compose(root) returns exactly `Hi World` + newline + `nested`.
C1_EndToEnd ==
    (/\ store[rootPath].body = EndToEndBody
     /\ store[otherPath] = File("", <<Lit("nested")>>)
     /\ Bound("name", <<Lit("World")>>)
     /\ Composed(rootPath))
    => Returns(<<"Hi ", "World", "\n", "nested">>)

\* C2: with the global x=1 and an override of x=2 for the path P (root),
\* compose(P) puts 2 in the place of the {{ $x }} token of P's body, and
\* composing another path Q (other) whose body holds {{ $x }} and which has
\* no override puts 1 there.
C2_VariablePrecedence ==
    /\ (/\ Bound("x", <<Lit("1")>>)
        /\ rootPath \in DOMAIN overrides
        /\ overrides[rootPath] = ("x" :> <<Lit("2")>>)
        /\ store[rootPath].body = <<Lit("r"), Var("x")>>
        /\ Composed(rootPath))
       => Returns(<<"r", "2">>)
    /\ (/\ Bound("x", <<Lit("1")>>)
        /\ otherPath \notin DOMAIN overrides
        /\ store[otherPath] = File("", <<Var("x")>>)
        /\ Composed(otherPath))
       => Returns(<<"1">>)

\* C3: the text compose returns holds no {{ $name }} token whose name has no
\* binding in the context resolved for the root fragment: such a token has
\* rendered as the empty string, whether or not the root holds references.
C3_MissingVariableRendersEmpty ==
    (pc = "idle" /\ outcome.op = "compose" /\ outcome.status = "returned")
    => \A i \in 1..Len(outcome.value) :
          ~(/\ outcome.value[i].k = "tok"
            /\ IsVariableRef(outcome.value[i].e)
            /\ outcome.value[i].e \notin DOMAIN extractTemplateVariables(outcome.arg))

\* C4: a global variable x=1 that no override replaces is put in the place
\* of the {{ $x }} token of every fragment of a composition: of a referenced
\* fragment, and of the root fragment itself, also when the root has no
\* references at all.
C4_GlobalVariablesEverywhere ==
    /\ (/\ Bound("x", <<Lit("1")>>)
        /\ overrides = EmptyMap
        /\ store[rootPath].body = EndToEndBody
        /\ store[otherPath] = File("", <<Var("x")>>)
        /\ Composed(rootPath))
       => outcome.status = "returned" /\ InSeq("1", PlainText(outcome.value))
    /\ (/\ Bound("x", <<Lit("1")>>)
        /\ overrides = EmptyMap
        /\ store[rootPath].body = <<Lit("r"), Var("x")>>
        /\ Composed(rootPath))
       => Returns(<<"r", "1">>)

\* C5: termination.  The loop of compose is a function of the node, the
\* directory, the variables and the overrides (and of the order of rg where
\* ids are looked up), and only the node changes while it runs: an
\* iteration that leaves the node as it was, references and all, is
\* repeated forever.  No iteration leaves the node unchanged.
C5_LoopMakesProgress ==
    [][(pc = "loop" /\ pc' = "loop") => node' # node]_vars

Count(x, s) == Cardinality({i \in 1..Len(s) : s[i] = x})

\* compose(A) for a fragment A whose one reference is B, where B refers
\* back to A: the loop ends with its first iteration, compose returns a text
\* that holds the literals of B's body and the literal of A's body once and
\* no token that names A or B, and a loop warning is recorded
CycleHandled(A, B, literalOfA, literalsOfB) ==
    (outcome.op = "compose" /\ outcome.arg = A)
    => /\ pc = "loop" => \/ iterations = 0 /\ node.references = <<B>>
                         \/ iterations = 1 /\ node.references = <<>>
       /\ pc = "idle" =>
            /\ outcome.status = "returned"
            /\ \A l \in literalsOfB : InSeq(l, PlainText(outcome.value))
            /\ Count(literalOfA, PlainText(outcome.value)) = 1
            /\ \A i \in 1..Len(outcome.value) :
                  outcome.value[i].k = "tok"
                  => outcome.value[i].e \notin SelfRefs \cup {otherPath}
            /\ "loop" \in warnings

\* root refers to other, and other refers back to root by a relative
\* selector or by root's id
RootAndOtherCycle ==
    /\ store[rootPath].body = EndToEndBody
    /\ store[otherPath].exists
    /\ store[otherPath].body \in {<<Lit("o"), Tok(e)>> : e \in SelfRefs}

\* C6: when A references B and B references A, compose(A) ends after one
\* iteration of the loop, the text it returns holds B's body without the
\* token that refers back to A, A's body is in it only once, and a loop
\* warning is recorded; for A = root, B = other and for A = other, B = root.
C6_AncestorCycle ==
    RootAndOtherCycle
    => /\ CycleHandled(rootPath, otherPath, "Hi ", {"o"})
       /\ CycleHandled(otherPath, rootPath, "o", {"Hi ", "\n"})

C6_CycleComposed ==
    /\ RootAndOtherCycle
    /\ store[otherPath].body = <<Lit("o"), Tok(<<"#", "ir">>)>>
    /\ Composed(rootPath)
    /\ outcome.status = "returned"
    /\ iterations = 1
    /\ "loop" \in warnings

\* The body of root refers to root, whose id no other fragment carries
SelfReferencingRoot ==
    /\ store[rootPath].body \in {<<Lit("r"), Tok(e)>> : e \in SelfRefs}
    /\ store \notin DuplicateIdStores

\* C7: when the body of root refers to root itself, as `root`, `@root` or
\* by root's id `#ir`, the node compose starts with has the token stripped
\* from its content and no reference, a self-reference warning is
\* recorded, and compose returns the rest of the body.
C7_SelfReferenceRemoved ==
    (SelfReferencingRoot /\ outcome.op = "compose" /\ outcome.arg = rootPath)
    => /\ pc = "loop" => /\ iterations = 0
                         /\ node.references = <<>>
                         /\ node.content = <<Lit("r")>>
       /\ pc = "idle" => Returns(<<"r">>)
       /\ "self-reference" \in warnings

C7_SelfReferenceComposed ==
    /\ store[rootPath].body = <<Lit("r"), Tok(<<"#", "ir">>)>>
    /\ Composed(rootPath)
    /\ outcome.value = <<Lit("r")>>
    /\ "self-reference" \in warnings

\* C8: when the body of root refers to a fragment that does not exist, as
\* `zz`, `@zz` or by the id `#zz`, compose(root) returns the rest of the
\* body, the token having rendered as the empty string, and a warning is
\* recorded.
C8_MissingTargetRendersEmpty ==
    (/\ store[rootPath].body \in {<<Lit("r"), Tok(e)>> : e \in MissingRefs}
     /\ Composed(rootPath))
    => Returns(<<"r">>) /\ "not-found" \in warnings

\* C9: whenever compose returns, every token left in the returned text is a
\* variable token: no reference token remains.
C9_NoReferenceTokenReturned ==
    (pc = "idle" /\ outcome.op = "compose" /\ outcome.status = "returned")
    => \A i \in 1..Len(outcome.value) :
          outcome.value[i].k = "tok" => IsVariableRef(outcome.value[i].e)

\* compose(root) returned after two iterations: a reference surfaced from
\* the expanded body of other and was expanded in turn
C9_SurfacedReferenceResolved ==
    /\ store[rootPath].body = EndToEndBody
    /\ Composed(rootPath)
    /\ outcome.status = "returned"
    /\ iterations = 2
    /\ outcome.value # <<>>

\* C10: in the chain root -> other -> leaf, where other's body is `o` +
\* `{{ leaf }}` and leaf's body is `c`, the text compose(root) returns
\* holds leaf's body right after the `o` of other's body.
C10_NestedReferencesResolved ==
    (/\ store[rootPath].body = EndToEndBody
     /\ store[otherPath] = File("", <<Lit("o"), Tok(<<"leaf">>)>>)
     /\ store[leafPath] = File("", <<Lit("c")>>)
     /\ Composed(rootPath))
    => /\ outcome.status = "returned"
       /\ \E i \in 1..(Len(PlainText(outcome.value)) - 1) :
             /\ PlainText(outcome.value)[i] = "o"
             /\ PlainText(outcome.value)[i + 1] = "c"

C12_ValidSelectorNeverRaises ==
    (/\ pc = "idle"
     /\ outcome.op = "compose"
     /\ isValidTemplateSelector(outcome.arg).valid)
    => outcome.status = "returned"

\* C13: a compose call that follows a compose call of the same selector,
\* with nothing provided in between and the directory unchanged, ends as
\* the first one did: same result, same text, same diagnostics.
C13_ComposeIdempotent ==
    (pc = "idle" /\ outcome.op = "compose" /\ previous.set)
    => /\ outcome.status = previous.status
       /\ outcome.value = previous.value
       /\ warnings = previous.warnings

\* C14: no step of a compose call changes the session's variables or its
\* override map, whether the call returns or fails on its selector.
C14_ComposeKeepsSession ==
    [][outcome'.op = "compose" => variables' = variables /\ overrides' = overrides]_vars

\* a compose has failed on its selector in a session that holds variables
\* and an override for root
C14_FailedComposeInSession ==
    /\ Composed(<<"/", "root">>)
    /\ outcome.status = "raised"
    /\ Bound("x", <<Lit("1")>>)
    /\ rootPath \in DOMAIN overrides

\* C15: in the fragment d/main the token {{ other }} refers to d/other, the
\* fragment of that name in the directory of d/main: with d/main = `m` +
\* `{{ other }}` and d/other = `deep`, compose(d/main) returns `mdeep`.
C15_DirectoryRelative ==
    (store \in DirectoryStores /\ Composed(dirMainPath))
    => Returns(<<"m", "deep">>)

\* C16: compose(@root) and compose(#ir), where ir is the id of root alone,
\* build their initial node from the fragment root, under the path root,
\* and return what compose(root) returns: `r` when the body of root is `r`
\* + `{{ zz }}` and no fragment zz exists.
C16_RootSelectorForms ==
    (/\ outcome.op = "compose"
     /\ outcome.arg \in {<<"@", "root">>, <<"#", "ir">>}
     /\ ~HasDuplicateId)
    => /\ (pc = "loop" /\ iterations = 0)
          => node.path = rootPath /\ node.frontmatter = "ir"
       /\ (pc = "idle" /\ store[rootPath].body = <<Lit("r"), Tok(<<"zz">>)>>)
          => Returns(<<"r">>)

\* C17: a provideVariables call of a well-formed payload returns, with the
\* session's directory and overrides as they were, and leaves every variable
\* it names with the value it gives and every other variable with the value
\* it had.
C17_ProvideVariablesMerges ==
    [][(outcome'.op = "provideVariables" /\ outcome'.arg \in WellFormedVariablePayloads)
       => /\ outcome'.status = "returned"
          /\ store' = store
          /\ overrides' = overrides
          /\ DOMAIN variables' = DOMAIN variables \cup DOMAIN outcome'.arg
          /\ \A n \in DOMAIN variables' :
                variables'[n] = IF n \in DOMAIN outcome'.arg THEN outcome'.arg[n]
                                                             ELSE variables[n]]_vars

\* two calls have named different variables, and both are bound
C17_TwoCallsMerged ==
    /\ outcome.op = "provideVariables"
    /\ outcome.status = "returned"
    /\ Bound("name", <<Lit("World")>>)
    /\ Bound("x", <<Tok(<<"leaf">>)>>)

\* C18: the override map holds canonical paths only: an override supplied
\* for `root`, `@other` or `#ir` is stored under root or other, one supplied
\* for an id that no fragment has is not stored.  An override stored for
\* root is applied when root is rendered as the fragment that other refers
\* to as `root` or `#ir`, and one stored for other when other is rendered as
\* the fragment root refers to.
C18_OverrideKeysNormalized ==
    /\ DOMAIN overrides \subseteq {rootPath, otherPath}
    /\ (/\ rootPath \in DOMAIN overrides
        /\ ~HasDuplicateId
        /\ store[rootPath].body = <<Lit("r"), Var("x")>>
        /\ store[otherPath].exists
        /\ store[otherPath].body \in {<<Lit("o"), Tok(e)>> : e \in {<<"root">>, <<"#", "ir">>}}
        /\ Composed(otherPath))
       => Returns(<<"o", "r", "2">>)
    /\ (/\ otherPath \in DOMAIN overrides
        /\ store[rootPath].body = EndToEndBody
        /\ store[otherPath] = File("", <<Var("x")>>)
        /\ Composed(rootPath))
       => outcome.status = "returned" /\ InSeq("2", PlainText(outcome.value))

C18_OverrideAppliedById ==
    /\ rootPath \in DOMAIN overrides
    /\ otherPath \notin DOMAIN overrides
    /\ store[rootPath].body = <<Lit("r"), Var("x")>>
    /\ store[otherPath].body = <<Lit("o"), Tok(<<"#", "ir">>)>>
    /\ Composed(otherPath)
    /\ Returns(<<"o", "r", "2">>)

\* The text of the global value of x: `1`, or nothing when x is unbound
GlobalX == IF "x" \in DOMAIN variables THEN PlainText(variables["x"]) ELSE <<>>

\* C19: with an override x=2 for other alone, and root = {{ $x }} + `+` +
\* {{ other }} + {{ leaf }}, where other and leaf are {{ $x }}: compose(root)
\* puts 2 in the place of other's token only; the token of root, the parent
\* of other, and the token of leaf take the global value of x, or the empty
\* string when x is unbound.
C19_OverrideScopedToFragment ==
    (/\ store \in SharedVariableStores
     /\ otherPath \in DOMAIN overrides
     /\ rootPath \notin DOMAIN overrides
     /\ "x" \in DOMAIN variables => variables["x"] = <<Lit("1")>>
     /\ Composed(rootPath))
    => Returns(GlobalX \o <<"+", "2">> \o GlobalX)

\* C20: where several fragments carry the id ir, the selector #ir resolves
\* to one of them with a duplicate-id warning, and to the same one at every
\* call: from one step to the next, the directory being what it was, the
\* fragment it resolves to does not change.
C20_DuplicateIdStable ==
    [][HasDuplicateId
       => /\ normalizeToRelativeSelector(<<"#", "ir">>).path \in {rootPath, otherPath}
          /\ "duplicate-id" \in normalizeToRelativeSelector(<<"#", "ir">>).warn
          /\ normalizeToRelativeSelector(<<"#", "ir">>).path'
                = normalizeToRelativeSelector(<<"#", "ir">>).path]_vars

NodeInvariant(n) ==
    /\ ~InSeq(n.path, n.ancestors)
    /\ \A i \in 1..Len(n.references) : ~InSeq(n.references[i], n.ancestors)
    /\ ~InSeq(n.path, n.references)

ChildrenInvariant(children) == \A i \in 1..Len(children) : NodeInvariant(children[i])

\* C22: while compose runs, the node of the loop (as built from the root
\* selector, and as every flatten leaves it) and every child that the next
\* iteration builds for it satisfy: path is not in ancestors, references has
\* no element of ancestors, and references does not hold path.
C22_NodeInvariants ==
    pc = "loop"
    => /\ NodeInvariant(node)
       /\ ChildrenInvariant(attachChildren(node).children)

\* compose(other), where other refers to root and root back to other: the
\* child built for root has lost its reference to other, an ancestor, and
\* the token {{ other }} that the value of root's variable name brought
\* into the body of other has been filtered at the flatten
C22_LoopedReferencesFiltered ==
    /\ pc = "loop"
    /\ iterations = 1
    /\ node.path = otherPath
    /\ store[rootPath].body = EndToEndBody
    /\ store[otherPath].body = <<Lit("o"), Tok(<<"root">>)>>
    /\ rootPath \in DOMAIN overrides
    /\ overrides[rootPath] = RootNameOverride
    /\ {"loop", "self-reference"} \subseteq warnings
    /\ node.references = <<>>

ChildrenOfBranch(parent, children) ==
    \A i \in 1..Len(children) :
        /\ children[i].ancestors = Append(parent.ancestors, parent.path)
        /\ \A j \in 1..Len(children) : ~InSeq(children[j].path, children[i].ancestors)

\* C23: every child is built with the ancestors of its parent followed by
\* the parent's path, and no sibling's path is among them; in the diamond
\* root = {{ other }}{{ leaf }}, other = `o` + {{ leaf }}, leaf = `c`,
\* compose(root) records no loop and returns `occ`: leaf is rendered in the
\* body of other and in the body of root.
C23_DiamondRenderedTwice ==
    /\ pc = "loop" => ChildrenOfBranch(node, attachChildren(node).children)
    /\ (store \in DiamondStores /\ Composed(rootPath))
       => /\ "loop" \notin warnings
          /\ Returns(<<"o", "c", "c">>)

\* The names of the variable tokens of a body, each once, in the order of
\* their first occurrence
DeclaredOnce(body) ==
    Dedup(VariableNames(SelectSeq(body, LAMBDA it : it.k = "tok" /\ IsVariableRef(it.e))))

\* C24: the variables of the node parsed from a fragment are the names of
\* the {{ $name }} tokens of its body, each once, in the order of first
\* appearance: for the body {{ $x }}{{ $name }}{{ $x }} they are x, name.
C24_DeclaredVariablesUnique ==
    (pc = "loop" /\ iterations = 0 /\ node.path \in Paths /\ store[node.path].exists)
    => node.variables = DeclaredOnce(store[node.path].body)

NoDuplicates(s) == \A i, j \in 1..Len(s) : s[i] = s[j] => i = j

\* C25: the references of the node of the loop never hold a key twice.
\* With root = {{ other }} + `-` + {{ @other }} + {{ #io }}, where io is the
\* id of other and other = `nested`, compose(root) starts with the one
\* reference other, builds one child for it, and returns
\* `nested-nestednested`: every one of the three tokens is replaced.
C25_ReferencesDeduplicated ==
    /\ pc = "loop" => NoDuplicates(node.references)
    /\ (store \in MultiReferenceStores /\ outcome.op = "compose" /\ outcome.arg = rootPath)
       => /\ (pc = "loop" /\ iterations = 0)
             => /\ node.references = <<otherPath>>
                /\ Len(attachChildren(node).children) = 1
          /\ pc = "idle" => /\ iterations = 1
                            /\ Returns(<<"nested", "-", "nested", "nested">>)

C25_ThreeTokensOneChild ==
    /\ store \in MultiReferenceStores
    /\ Composed(rootPath)
    /\ iterations = 1
    /\ Returns(<<"nested", "-", "nested", "nested">>)

\* Expressions that resolve to no fragment: no selector of the three forms,
\* and an id that no fragment carries
UnresolvedRefs == {<<".", "/", "other">>, <<"#", "zz">>}

\* C26: when the body of root is `r` and a token whose expression is no
\* valid selector (`./other`) or an id that no fragment has (`#zz`),
\* compose(root) starts with the expression itself as its one reference,
\* records a not-found warning and returns `r`: the token renders as the
\* empty string and the content of no fragment is put in its place.
C26_UnresolvedReferenceKept ==
    (/\ store[rootPath].body \in {<<Lit("r"), Tok(e)>> : e \in UnresolvedRefs}
     /\ outcome.op = "compose"
     /\ outcome.arg = rootPath)
    => /\ (pc = "loop" /\ iterations = 0) => node.references = <<store[rootPath].body[2].e>>
       /\ pc = "idle" => Returns(<<"r">>) /\ "not-found" \in warnings

\* C27: with root = `r` + {{ other }} and other = `a&<b`, compose(root)
\* returns `ra&<b`: the body of other is in the output character for
\* character.
C27_SubstitutionVerbatim ==
    (store \in SpecialCharacterStores /\ Composed(rootPath))
    => Returns(<<"r", "a", "&", "<", "b">>)

\* C28: with the variable x bound to the text `{{ leaf }}`, root = `Hi ` +
\* {{ $name }} + newline + {{ other }} and other = {{ $x }}, no body of the
\* composition of root refers to leaf: while compose(root) runs, leaf never
\* is a reference of the node, and the loop ends with its first iteration.
C28_VariableValuesInert ==
    (/\ store[rootPath].body = EndToEndBody
     /\ store[otherPath] = File("", <<Var("x")>>)
     /\ outcome.op = "compose"
     /\ outcome.arg = rootPath)
    => /\ ~InSeq(leafPath, node.references)
       /\ iterations <= 1

\* What a compose call of the selector gives when it is run from its start
\* in the session and the directory as they are: the loop from the node n
\* after k iterations
RECURSIVE LoopFrom(_, _), LoopAfter(_, _)
LoopFrom(n, k) ==
    IF n.references = <<>> THEN [status |-> "returned", value |-> n.content]
    ELSE IF k >= MaxIterations THEN [status |-> "running", value |-> <<>>]
    ELSE LoopAfter(ExpandAndFlatten(n), k)

LoopAfter(flattened, k) ==
    IF flattened.ok
    THEN LoopFrom(flattened.node, k + 1)
    ELSE [status |-> "raised", value |-> <<>>]

ComposedAfresh(templateSelector) ==
    IF isValidTemplateSelector(templateSelector).valid
    THEN LoopFrom(getNodeFromSelector(templateSelector, <<>>).node, 0)
    ELSE [status |-> "raised", value |-> <<>>]

SameAs(result) == outcome.status = result.status /\ outcome.value = result.value

\* C29: whatever calls came before, a compose call that has ended has given
\* what the selector gives when composed from its start with the variables
\* and overrides the session holds and the directory as it is: the result
\* is a function of these alone.
C29_ComposeOfSessionState ==
    (pc = "idle" /\ outcome.op = "compose") => SameAs(ComposedAfresh(outcome.arg))

\* The path a payload of one entry names, or none
Named(payload) ==
    IF normalizeToRelativeSelector(payload[1].sel).path = Null
    THEN {}
    ELSE {normalizeToRelativeSelector(payload[1].sel).path}

\* C30: a provideOverrides call of a well-formed payload leaves the
\* variable set of every path it does not name as it was, and gives the
\* path it names the variable set of the payload, nothing of the path's
\* earlier set being kept; and after the call the variables resolved for a
\* path of the map are the global ones with the path's set over them.
C30_OverridesReplacedPerPath ==
    [][/\ (outcome'.op = "provideOverrides" /\ outcome'.arg \in WellFormedOverridePayloads)
          => /\ outcome'.status = "returned"
             /\ DOMAIN overrides' = DOMAIN overrides \cup Named(outcome'.arg)
             /\ \A path \in DOMAIN overrides \ Named(outcome'.arg) :
                   overrides'[path] = overrides[path]
             /\ \A path \in Named(outcome'.arg) : overrides'[path] = outcome'.arg[1].vars
       /\ (outcome.op = "provideOverrides" /\ outcome.status = "returned")
          => \A path \in DOMAIN overrides :
                extractTemplateVariables(path) = Prefixed(Merge(variables, overrides[path]))]_vars

\* the session holds overrides for two paths, the one for root with two
\* variables
C30_TwoPathsOverridden ==
    /\ outcome.op = "provideOverrides"
    /\ outcome.status = "returned"
    /\ DOMAIN overrides = {rootPath, otherPath}
    /\ overrides[rootPath] = RootNameOverride
    /\ overrides[otherPath] = ("x" :> <<Lit("2")>>)

====
